---- MODULE Spec2Model ----
(***************************************************************************)
(* The step sequencer of src/src/App.tsx as a state machine.               *)
(*                                                                         *)
(* The React component's state cells are the variables.  A render is the   *)
(* record State of all cells; the interval callback created by the effect  *)
(* closes over the render that created it, so every live interval carries  *)
(* the record it captured (field cb).  The effect runs again only when one *)
(* of its dependencies differs between two renders.                        *)
(*                                                                         *)
(* Numbers with one decimal (attack, release, duration, rate) are kept in  *)
(* tenths: attack = 2 stands for 0.2 s.  Times are in milliseconds.        *)
(***************************************************************************)
EXTENDS Integers, Sequences, FiniteSets

\* ---------------------------------------------------------------- constants
BEATS_PER_BAR == 16

SWEEP == "sweep"
PULSE == "pulse"
NOISE == "noise"
SAMPLE == "sample"
Track == {SWEEP, PULSE, NOISE, SAMPLE}

\* ------------------------------------------------------------------- bounds
\* ticks in one run of Spec, where every operation is interleaved, and of
\* SpecSweep and SpecFrames
MaxTicks == 3
\* ticks in one run of SpecBar and SpecLoop, which go once around the grid
\* and beyond
MaxBarTicks == 17
\* clicks on pads and track buttons and changes of range inputs, in one run
MaxEdits == 2
\* pads 0..MaxPad are the ones clicked
MaxPad == 1
\* the count of pending animation-frame callbacks is kept up to this value
MaxRaf == 2
\* milliseconds that pass in one step of the clock
TimeUnit == 500

\* values typed, dragged or scripted into the range inputs (out of range too)
TempoRequests == {30, 240, 300}
TenthRequests == {-3, 7, 25}
FrequencyRequests == {100, 1000, 2000}
LfoRequests == {5, 25, 99}
BandRequests == {0, 403, 5000}

VARIABLES
  currentStep, tempo, isPlaying, selectedTrack,
  sweepSequence, pulseSequence, noiseSequence, sampleSequence,
  audioState,     \* audioContext.state
  resumePending,  \* a promise of audioContext.resume() is not settled yet
  timers,         \* the live intervals, oldest first
  rafPending,     \* visualize callbacks queued for the next frame
  lfoRunning,     \* LFO oscillators started and not stopped
  pulseTones,     \* Pulse main oscillators started and not yet stopped
  notes,          \* the Sweep and Pulse oscillators committed, not yet stopped
  lastOp,         \* the operation that led to this state
  lastArg,        \* its argument
  fires,          \* tracks whose synthesizer the last step invoked
  built,          \* what each of them was built with
  firedOn,        \* audioContext.state when they were invoked, or "none"
  inert,          \* steps at which a Sample firing found no buffer to play
  streak,         \* clicks on the same pad in a row, up to this state
  origin,         \* the pattern that row of clicks started from
  sinceTick,      \* ms since the last tick, play press or tempo change
  nTicks, nEdits

react == <<currentStep, tempo, isPlaying, selectedTrack,
           sweepSequence, pulseSequence, noiseSequence, sampleSequence>>
audio == <<audioState, resumePending, lfoRunning, pulseTones, notes>>
out == <<fires, built, firedOn, inert>>
vars == <<react, audio, timers, rafPending, lastOp, lastArg, out, streak, origin,
          sinceTick, nTicks, nEdits>>

\* ------------------------------------------------------------------ helpers
Min(a, b) == IF a < b THEN a ELSE b

\* new Array(BEATS_PER_BAR).fill(false)
NoSteps == [i \in 1..BEATS_PER_BAR |-> FALSE]

\* steps[i], read as a condition, of a 0-indexed array held as a 1-indexed
\* sequence: an index outside the array reads undefined, which is falsy
At(steps, i) == (i + 1) \in DOMAIN steps /\ steps[i + 1]

\* one render: the values every closure made by it sees
State ==
  [currentStep |-> currentStep, tempo |-> tempo, isPlaying |-> isPlaying,
   selectedTrack |-> selectedTrack,
   sweepSequence |-> sweepSequence, pulseSequence |-> pulseSequence,
   noiseSequence |-> noiseSequence, sampleSequence |-> sampleSequence]

\* sequenceMap[track] of a render
SequenceOf(s, track) ==
  CASE track = SWEEP -> s.sweepSequence
    [] track = PULSE -> s.pulseSequence
    [] track = NOISE -> s.noiseSequence
    [] OTHER -> s.sampleSequence

\* a toggle that writes true where the negation belongs
ToggleAlwaysOn(i, prevState) ==
  [prevState EXCEPT !.steps =
     SubSeq(prevState.steps, 1, i) \o <<TRUE>>
       \o SubSeq(prevState.steps, i + 2, Len(prevState.steps))]

\* a toggle whose tail is steps.slice(i) where steps.slice(i + 1) belongs
ToggleSliceFromI(i, prevState) ==
  [prevState EXCEPT !.steps =
     SubSeq(prevState.steps, 1, i) \o <<~At(prevState.steps, i)>>
       \o SubSeq(prevState.steps, i + 1, Len(prevState.steps))]

\* toggleSequenceStep(i)(prevState)
toggleSequenceStep(i, prevState) ==
  [prevState EXCEPT !.steps =
     SubSeq(prevState.steps, 1, i) \o <<~At(prevState.steps, i)>>
       \o SubSeq(prevState.steps, i + 2, Len(prevState.steps))]

\* an input that hands on whatever is requested of it
RangeUnclamped(min, max, step, v) == v

\* <input type="range" min max step>: the value the element holds, and hands
\* to onChange as e.target.value, after a request for v (all in the same
\* unit).  Below min it is min, above max it is max, otherwise the nearest
\* min + k*step.  The handlers add no check of their own.
RangeInput(min, max, step, v) ==
  IF v < min THEN min
  ELSE IF v > max THEN max
  ELSE LET k == (2 * (v - min) + step) \div (2 * step)
           r == min + k * step
       IN  IF r > max THEN r - step ELSE r

\* (60 / tempo) * 1000, as the integer delay setInterval takes
Delay(bpm) == 60000 \div bpm

\* a next step without the wrap
NextStepNoWrap(step) == step + 1

\* (currentStep + 1) % BEATS_PER_BAR
NextStep(step) == (step + 1) % BEATS_PER_BAR

\* a callback that never takes the early return
StoppedNever(cb) == FALSE

\* if (!isPlaying) in the interval callback
Stopped(cb) == ~cb.isPlaying

\* ------------------------------------------------------------- the effect
\* a dependency list that names selectedTrack too
DepsWithSelection(old, new) ==
  \/ old.isPlaying # new.isPlaying
  \/ old.currentStep # new.currentStep
  \/ old.tempo # new.tempo
  \/ old.pulseSequence.steps # new.pulseSequence.steps
  \/ old.sweepSequence.steps # new.sweepSequence.steps
  \/ old.noiseSequence.steps # new.noiseSequence.steps
  \/ old.selectedTrack # new.selectedTrack

\* the dependency list of the effect, compared between two renders
DepsChanged(old, new) ==
  \/ old.isPlaying # new.isPlaying
  \/ old.currentStep # new.currentStep
  \/ old.tempo # new.tempo
  \/ old.pulseSequence.steps # new.pulseSequence.steps
  \/ old.sweepSequence.steps # new.sweepSequence.steps
  \/ old.noiseSequence.steps # new.noiseSequence.steps

\* a cleanup that clears nothing
CleanupNever(ts) == ts

\* the effect's cleanup: clearInterval(timer) of the interval it made, which
\* is the youngest one if it is still live
Cleanup(ts) == IF ts = <<>> THEN ts ELSE SubSeq(ts, 1, Len(ts) - 1)

\* the effect's body: a new interval whose callback closes over render new
RunEffect(ts, new) ==
  Append(Cleanup(ts), [delay |-> Delay(new.tempo), elapsed |-> 0, cb |-> new])

\* a state update followed by the render and the effects it causes.  The
\* cleanup and the new effect run before any interval can come due again
\* (the shortest delay is 250 ms), so the three are one step.
Commit(ts, new) ==
  /\ currentStep' = new.currentStep
  /\ tempo' = new.tempo
  /\ isPlaying' = new.isPlaying
  /\ selectedTrack' = new.selectedTrack
  /\ sweepSequence' = new.sweepSequence
  /\ pulseSequence' = new.pulseSequence
  /\ noiseSequence' = new.noiseSequence
  /\ sampleSequence' = new.sampleSequence
  /\ timers' = IF DepsChanged(State, new) THEN RunEffect(ts, new) ELSE ts

\* this step is no click on a pad
NoClick ==
  /\ streak' = 0
  /\ origin' = <<>>

\* nothing is invoked by this step
Silent ==
  /\ fires' = {}
  /\ built' = <<>>
  /\ firedOn' = "none"
  /\ inert' = inert

\* ---------------------------------------------------------------- initial
\* the render of the first mount: the useState initial values
InitialState ==
  [currentStep |-> 0, tempo |-> 120, isPlaying |-> FALSE,
   selectedTrack |-> SWEEP,
   sweepSequence |-> [attack |-> 2, release |-> 5, steps |-> NoSteps],
   pulseSequence |-> [frequency |-> 880, lfo |-> 30, steps |-> NoSteps],
   noiseSequence |-> [duration |-> 10, band |-> 1000, steps |-> NoSteps],
   sampleSequence |-> [rate |-> 10, steps |-> NoSteps]]

\* the component shows render s and its effect has run once for it; the audio
\* context was made at module load, suspended or running as the browser's
\* autoplay policy has it
Mounted(s) ==
  /\ currentStep = s.currentStep
  /\ tempo = s.tempo
  /\ isPlaying = s.isPlaying
  /\ selectedTrack = s.selectedTrack
  /\ sweepSequence = s.sweepSequence
  /\ pulseSequence = s.pulseSequence
  /\ noiseSequence = s.noiseSequence
  /\ sampleSequence = s.sampleSequence
  /\ audioState \in {"suspended", "running"}
  /\ resumePending = FALSE
  /\ timers = RunEffect(<<>>, s)
  /\ rafPending = 0
  /\ lfoRunning = 0
  /\ pulseTones = 0
  /\ notes = {}
  /\ lastOp = "init"
  /\ lastArg = <<>>
  /\ fires = {}
  /\ built = <<>>
  /\ firedOn = "none"
  /\ inert = {}
  /\ streak = 0
  /\ origin = <<>>
  /\ sinceTick = 0
  /\ nTicks = 0
  /\ nEdits = 0

Init == Mounted(InitialState)

\* ---------------------------------------------------------------- actions
\* a play/pause button that cuts every committed note short
PlayPauseCancels ==
  /\ Commit(timers, [State EXCEPT !.isPlaying = ~isPlaying])
  /\ lastOp' = IF isPlaying THEN "pause" ELSE "play"
  /\ lastArg' = <<>>
  /\ sinceTick' = 0
  /\ NoClick
  /\ Silent
  /\ notes' = {[n EXCEPT !.node.stop = n.node.start] : n \in notes}
  /\ UNCHANGED <<audioState, resumePending, lfoRunning, pulseTones, rafPending,
                 nTicks, nEdits>>

\* the play/pause button: setIsPlaying((prevState) => !prevState)
PlayPause ==
  /\ Commit(timers, [State EXCEPT !.isPlaying = ~isPlaying])
  /\ lastOp' = IF isPlaying THEN "pause" ELSE "play"
  /\ lastArg' = <<>>
  /\ sinceTick' = 0
  /\ NoClick
  /\ Silent
  /\ UNCHANGED <<audio, rafPending, nTicks, nEdits>>

\* a track button: setSelectedTrack(track)
SelectTrack(track) ==
  /\ nEdits < MaxEdits
  /\ Commit(timers, [State EXCEPT !.selectedTrack = track])
  /\ lastOp' = "select"
  /\ lastArg' = <<track>>
  /\ NoClick
  /\ nEdits' = nEdits + 1
  /\ Silent
  /\ UNCHANGED <<audio, rafPending, sinceTick, nTicks>>

\* handleStepClick(track, i): the state the click leads to
handleStepClick(s, track, i) ==
  IF track = SWEEP
    THEN [s EXCEPT !.sweepSequence = toggleSequenceStep(i, s.sweepSequence)]
  ELSE IF track = PULSE
    THEN [s EXCEPT !.pulseSequence = toggleSequenceStep(i, s.pulseSequence)]
  ELSE IF track = NOISE
    THEN [s EXCEPT !.noiseSequence = toggleSequenceStep(i, s.noiseSequence)]
  ELSE [s EXCEPT !.sampleSequence = toggleSequenceStep(i, s.sampleSequence)]

\* a pad of the selected track is clicked
StepClick(i) ==
  /\ nEdits < MaxEdits
  /\ Commit(timers, handleStepClick(State, selectedTrack, i))
  /\ lastOp' = "toggle"
  /\ lastArg' = <<selectedTrack, i>>
  /\ streak' = IF lastOp = "toggle" /\ lastArg = <<selectedTrack, i>>
                 THEN streak + 1 ELSE 1
  /\ origin' = IF lastOp = "toggle" /\ lastArg = <<selectedTrack, i>>
                 THEN origin ELSE SequenceOf(State, selectedTrack).steps
  /\ nEdits' = nEdits + 1
  /\ Silent
  /\ UNCHANGED <<audio, rafPending, sinceTick, nTicks>>

\* what a change of a range input shares: the request counts as an edit
Edit(name, v) ==
  /\ nEdits < MaxEdits
  /\ lastOp' = "set"
  /\ lastArg' = <<name, v>>
  /\ NoClick
  /\ nEdits' = nEdits + 1
  /\ Silent
  /\ UNCHANGED <<audio, rafPending, nTicks>>

\* the bpm input: setTempo(Number(e.target.value))
SetTempo(v) ==
  LET value == RangeInput(60, 240, 1, v) IN
  /\ Edit("tempo", v)
  /\ Commit(timers, [State EXCEPT !.tempo = value])
  /\ sinceTick' = IF value # tempo THEN 0 ELSE sinceTick

\* the attack input, shown while Sweep is selected
SetAttack(v) ==
  /\ selectedTrack = SWEEP
  /\ Edit("attack", v)
  /\ Commit(timers, [State EXCEPT !.sweepSequence.attack = RangeInput(0, 10, 1, v)])
  /\ UNCHANGED sinceTick

\* the release input, shown while Sweep is selected
SetRelease(v) ==
  /\ selectedTrack = SWEEP
  /\ Edit("release", v)
  /\ Commit(timers, [State EXCEPT !.sweepSequence.release = RangeInput(0, 10, 1, v)])
  /\ UNCHANGED sinceTick

\* the hz input, shown while Pulse is selected
SetFrequency(v) ==
  /\ selectedTrack = PULSE
  /\ Edit("frequency", v)
  /\ Commit(timers, [State EXCEPT !.pulseSequence.frequency = RangeInput(660, 1320, 1, v)])
  /\ UNCHANGED sinceTick

\* the lfo input, shown while Pulse is selected
SetLfo(v) ==
  /\ selectedTrack = PULSE
  /\ Edit("lfo", v)
  /\ Commit(timers, [State EXCEPT !.pulseSequence.lfo = RangeInput(20, 40, 1, v)])
  /\ UNCHANGED sinceTick

\* the duration input, shown while Noise is selected
SetDuration(v) ==
  /\ selectedTrack = NOISE
  /\ Edit("duration", v)
  /\ Commit(timers, [State EXCEPT !.noiseSequence.duration = RangeInput(0, 20, 1, v)])
  /\ UNCHANGED sinceTick

\* the band input, shown while Noise is selected
SetBand(v) ==
  /\ selectedTrack = NOISE
  /\ Edit("band", v)
  /\ Commit(timers, [State EXCEPT !.noiseSequence.band = RangeInput(400, 1200, 5, v)])
  /\ UNCHANGED sinceTick

\* the rate input, shown while Sample is selected.  It is given the value
\* sampleSequence.rate and no onChange: React holds the element at that value,
\* and a request to change it changes no state and causes no render.
SetRate(v) ==
  /\ selectedTrack = SAMPLE
  /\ Edit("rate", v)
  /\ Commit(timers, State)
  /\ UNCHANGED sinceTick

\* the parameter values playSweep, playPulse and playNoise of render cb read
\* when they build a note
Params(cb, track) ==
  CASE track = SWEEP ->
         [attack |-> cb.sweepSequence.attack, release |-> cb.sweepSequence.release]
    [] track = PULSE ->
         [frequency |-> cb.pulseSequence.frequency, lfo |-> cb.pulseSequence.lfo]
    [] OTHER ->
         [duration |-> cb.noiseSequence.duration, band |-> cb.noiseSequence.band]

\* a note as built by render cb: its parameters, and whether it is routed
\* through the analyzer (selectedTrack === track)
Built(cb, track) ==
  [params |-> Params(cb, track), tap |-> cb.selectedTrack = track]

\* const sweepLength = 2 and const pulseTime = 1, in ms
sweepLength == 2000
pulseTime == 1000

\* seconds held in tenths, as ms
Ms(tenths) == 100 * tenths

\* a playSweep whose release ramp ends release after the start, not release
\* before the stop
playSweepReleaseFromStart(cb) ==
  [track |-> SWEEP,
   gain |-> <<[value |-> 0, at |-> 0],
              [value |-> 1, at |-> 0 + Ms(cb.sweepSequence.attack)],
              [value |-> 0, at |-> 0 + Ms(cb.sweepSequence.release)]>>,
   start |-> 0,
   stop |-> 0 + sweepLength]

\* what playSweep of render cb schedules.  Times are counted from its
\* argument time, the audioContext.currentTime the callback read: 0 is time.
playSweep(cb) ==
  [track |-> SWEEP,
   gain |-> <<[value |-> 0, at |-> 0],
              [value |-> 1, at |-> 0 + Ms(cb.sweepSequence.attack)],
              [value |-> 0, at |-> 0 + sweepLength - Ms(cb.sweepSequence.release)]>>,
   start |-> 0,
   stop |-> 0 + sweepLength]

\* what playPulse schedules for its main oscillator, times counted likewise;
\* amp.gain is the constant 1
playPulse(cb) ==
  [track |-> PULSE,
   gain |-> <<[value |-> 1, at |-> 0]>>,
   start |-> 0,
   stop |-> 0 + pulseTime]

\* the oscillators with a stop time that the tracks in tracks commit, for
\* the tick numbered tick
Committed(cb, tracks, tick) ==
  {[tick |-> tick, node |-> playSweep(cb)] : tr \in tracks \cap {SWEEP}}
    \cup {[tick |-> tick, node |-> playPulse(cb)] : tr \in tracks \cap {PULSE}}

\* the oldest committed note of a track
Oldest(track) ==
  CHOOSE n \in notes :
    /\ n.node.track = track
    /\ \A m \in notes : m.node.track = track => n.tick <= m.tick

\* createBuffer(1, 0, sampleRate) throws: a Noise firing of duration 0 ends
\* the callback before the Sample gate is looked at
NoiseThrows(cb, step) ==
  At(cb.noiseSequence.steps, step) /\ cb.noiseSequence.duration = 0

\* the tracks playSound is called for by a callback of render cb at step
Fired(cb, step) ==
  {t \in {SWEEP, PULSE, NOISE} : At(SequenceOf(cb, t).steps, step)}
    \cup (IF At(cb.sampleSequence.steps, step) /\ ~NoiseThrows(cb, step)
            THEN {SAMPLE} ELSE {})

\* the callback of interval n comes due
TimerCallback(n, cap) ==
  LET t == timers[n]
      cb == t.cb
      nextStep == NextStep(cb.currentStep)
      pulse == IF PULSE \in Fired(cb, nextStep) THEN 1 ELSE 0
      rearmed == [timers EXCEPT ![n].elapsed = 0]
  IN
  /\ t.elapsed = t.delay
  /\ rafPending' = Min(rafPending + 1, MaxRaf)
  /\ lastArg' = <<>>
  /\ NoClick
  /\ IF Stopped(cb)
       THEN /\ timers' = SubSeq(timers, 1, n - 1) \o SubSeq(timers, n + 1, Len(timers))
            /\ lastOp' = "idle"
            /\ Silent
            /\ UNCHANGED <<react, audio, sinceTick, nTicks, nEdits>>
       ELSE /\ nTicks < cap
            /\ resumePending' = (resumePending \/ audioState = "suspended")
            /\ Commit(rearmed, [State EXCEPT !.currentStep = nextStep])
            /\ fires' = Fired(cb, nextStep)
            /\ built' = [tr \in (Fired(cb, nextStep) \ {SAMPLE}) \
                                  (IF NoiseThrows(cb, nextStep) THEN {NOISE} ELSE {})
                           |-> Built(cb, tr)]
            /\ firedOn' = audioState
            /\ inert' = inert \cup (IF SAMPLE \in Fired(cb, nextStep)
                                       THEN {nextStep} ELSE {})
            /\ lfoRunning' = lfoRunning + pulse
            /\ pulseTones' = pulseTones + pulse
            /\ notes' = notes \cup Committed(cb, Fired(cb, nextStep), nTicks + 1)
            /\ lastOp' = "tick"
            /\ sinceTick' = 0
            /\ nTicks' = nTicks + 1
            /\ UNCHANGED <<audioState, nEdits>>

\* time passes, up to the next moment an interval comes due
Advance ==
  LET left == {timers[n].delay - timers[n].elapsed : n \in 1..Len(timers)}
      d == IF \E x \in left : x < TimeUnit
             THEN CHOOSE x \in left : \A y \in left : x <= y
             ELSE TimeUnit
  IN
  /\ timers # <<>>
  /\ \A x \in left : x > 0
  /\ timers' = [n \in 1..Len(timers) |->
                  [timers[n] EXCEPT !.elapsed = timers[n].elapsed + d]]
  /\ sinceTick' = IF isPlaying THEN sinceTick + d ELSE sinceTick
  /\ lastOp' = "time"
  /\ lastArg' = <<>>
  /\ NoClick
  /\ Silent
  /\ UNCHANGED <<react, audio, rafPending, nTicks, nEdits>>

\* the promise of audioContext.resume() settles: the graph runs, or it does
\* not and stays suspended
ResumeSettles(ok) ==
  /\ resumePending
  /\ resumePending' = FALSE
  /\ audioState' = IF ok THEN "running" ELSE audioState
  /\ lastOp' = "resume"
  /\ lastArg' = <<>>
  /\ NoClick
  /\ Silent
  /\ UNCHANGED <<react, timers, lfoRunning, pulseTones, notes, rafPending,
                 sinceTick, nTicks, nEdits>>

\* a Pulse main oscillator reaches its stop time: osc.stop(time + pulseTime)
PulseToneStops ==
  /\ pulseTones > 0
  /\ pulseTones' = pulseTones - 1
  /\ notes' = notes \ {Oldest(PULSE)}
  /\ lastOp' = "stop"
  /\ lastArg' = <<>>
  /\ NoClick
  /\ Silent
  /\ UNCHANGED <<react, timers, audioState, resumePending, lfoRunning, rafPending,
                 sinceTick, nTicks, nEdits>>

\* a Sweep oscillator reaches its stop time: osc.stop(time + sweepLength)
SweepToneStops ==
  /\ \E n \in notes : n.node.track = SWEEP
  /\ notes' = notes \ {Oldest(SWEEP)}
  /\ lastOp' = "stop"
  /\ lastArg' = <<>>
  /\ NoClick
  /\ Silent
  /\ UNCHANGED <<react, timers, audioState, resumePending, lfoRunning, pulseTones,
                 rafPending, sinceTick, nTicks, nEdits>>

\* a display refresh: every queued visualize runs, draws the analyzer's
\* samples on the canvas and, as its last statement, queues itself again, so
\* as many are queued after the refresh as before it
Frame ==
  /\ rafPending > 0
  /\ rafPending' = rafPending
  /\ lastOp' = "frame"
  /\ lastArg' = <<>>
  /\ NoClick
  /\ Silent
  /\ UNCHANGED <<react, audio, timers, sinceTick, nTicks, nEdits>>

Next ==
  \/ PlayPause
  \/ \E track \in Track : SelectTrack(track)
  \/ \E i \in 0..MaxPad : StepClick(i)
  \/ \E v \in TempoRequests : SetTempo(v)
  \/ \E v \in TenthRequests : SetAttack(v)
  \/ \E v \in TenthRequests : SetRelease(v)
  \/ \E v \in FrequencyRequests : SetFrequency(v)
  \/ \E v \in LfoRequests : SetLfo(v)
  \/ \E v \in TenthRequests : SetDuration(v)
  \/ \E v \in BandRequests : SetBand(v)
  \/ \E v \in TenthRequests : SetRate(v)
  \/ \E n \in 1..Len(timers) : TimerCallback(n, MaxTicks)
  \/ Advance
  \/ \E ok \in BOOLEAN : ResumeSettles(ok)
  \/ PulseToneStops
  \/ SweepToneStops

Spec == Init /\ [][Next]_vars

\* the transport and the pads of the selected track, over more than one bar
NextBar ==
  \/ PlayPause
  \/ \E i \in 0..MaxPad : StepClick(i)
  \/ \E n \in 1..Len(timers) : TimerCallback(n, MaxBarTicks)
  \/ Advance
  \/ \E ok \in BOOLEAN : ResumeSettles(ok)
  \/ SweepToneStops

SpecBar == Init /\ [][NextBar]_vars

\* the transport and the display
NextFrames ==
  \/ PlayPause
  \/ \E n \in 1..Len(timers) : TimerCallback(n, MaxTicks)
  \/ Advance
  \/ \E ok \in BOOLEAN : ResumeSettles(ok)
  \/ Frame

SpecFrames == Init /\ [][NextFrames]_vars

\* patterns the pads of a track can have been clicked into: every m-th gate
\* from gate r on
Patterns ==
  {[i \in 1..BEATS_PER_BAR |-> (i - 1) % m = r] : m \in {1, 2, 4, 16}, r \in {0, 1}}

\* a track is selected and its pads have been clicked into one of Patterns
InitPads ==
  \E track \in Track, steps \in Patterns :
    Mounted(
      CASE track = SWEEP ->
             [InitialState EXCEPT !.selectedTrack = track, !.sweepSequence.steps = steps]
        [] track = PULSE ->
             [InitialState EXCEPT !.selectedTrack = track, !.pulseSequence.steps = steps]
        [] track = NOISE ->
             [InitialState EXCEPT !.selectedTrack = track, !.noiseSequence.steps = steps]
        [] OTHER ->
             [InitialState EXCEPT !.selectedTrack = track, !.sampleSequence.steps = steps])

\* clicks on any of the sixteen pads of the selected track
NextPads == \E i \in 0..(BEATS_PER_BAR - 1) : StepClick(i)

SpecPads == InitPads /\ [][NextPads]_vars

\* every pad of Sweep is on, and attack and release have been set to any two
\* values their inputs offer
InitSweep ==
  \E attack \in 0..10, release \in 0..10 :
    Mounted([InitialState EXCEPT !.sweepSequence =
               [attack |-> attack, release |-> release,
                steps |-> [i \in 1..BEATS_PER_BAR |-> TRUE]]])

\* the transport alone
NextSweep ==
  \/ PlayPause
  \/ \E n \in 1..Len(timers) : TimerCallback(n, MaxTicks)
  \/ Advance
  \/ \E ok \in BOOLEAN : ResumeSettles(ok)
  \/ SweepToneStops

SpecSweep == InitSweep /\ [][NextSweep]_vars

\* Noise is selected and the pads of Sample have been clicked into one of
\* Patterns; the pads of Noise into the same pattern, or not at all
InitLoop ==
  \E steps \in Patterns, both \in BOOLEAN :
    LET noise == IF both THEN steps ELSE NoSteps IN
    Mounted([InitialState EXCEPT !.selectedTrack = NOISE,
                                 !.noiseSequence.steps = noise,
                                 !.sampleSequence.steps = steps])

\* the transport and the duration input of Noise, over more than one bar
NextLoop ==
  \/ PlayPause
  \/ \E v \in TenthRequests : SetDuration(v)
  \/ \E n \in 1..Len(timers) : TimerCallback(n, MaxBarTicks)
  \/ Advance
  \/ \E ok \in BOOLEAN : ResumeSettles(ok)

SpecLoop == InitLoop /\ [][NextLoop]_vars

\* ------------------------------------------------------------------ claims
\* the pattern of a track in the current render
StepsOf(track) == SequenceOf(State, track).steps

\* C1: the grid position is an integer in 0..15 in every state; it is
\* (0 + k) mod 16 after k ticks from the position 0 the program starts at, and
\* a tick taken at any position p leads to (p + 1) mod 16, so that k ticks
\* from p0 lead to (p0 + k) mod 16.
C1_GridPosition ==
  /\ [](/\ currentStep \in 0..(BEATS_PER_BAR - 1)
        /\ currentStep = (0 + nTicks) % BEATS_PER_BAR)
  /\ [][lastOp' = "tick" =>
          /\ nTicks' = nTicks + 1
          /\ currentStep' = (currentStep + 1) % BEATS_PER_BAR]_vars

\* the grid went once around and wrapped from 15 to 0 and on to 1
C1_Witness == lastOp = "tick" /\ nTicks = BEATS_PER_BAR + 1 /\ currentStep = 1

\* C2: right after a tick, the synthesizers invoked are exactly those of the
\* tracks whose gate at the new step is true in the current patterns.
C2_GateHonoured ==
  lastOp = "tick" =>
    \A track \in Track : (track \in fires) <=> At(StepsOf(track), currentStep)

\* C3: the grid position changes only by a tick taken while isPlaying is
\* true; while isPlaying is false no step advances it and no synthesizer is
\* invoked; pause, resume, toggles, tempo and parameter changes and track
\* selections leave it as it is.
C3_StepFrozen ==
  [][/\ currentStep' # currentStep => (isPlaying /\ lastOp' = "tick")
     /\ ~isPlaying =>
          /\ currentStep' = currentStep
          /\ fires' = {}
          /\ lfoRunning' <= lfoRunning /\ pulseTones' <= pulseTones
     /\ lastOp' \in {"pause", "play", "toggle", "set", "select"} =>
          currentStep' = currentStep]_vars

\* a timer callback ran while playback was paused at a step other than 0
C3_Witness == lastOp = "idle" /\ ~isPlaying /\ currentStep # 0 /\ nEdits > 0

\* C4: while isPlaying is true and the tempo is unchanged, no more than
\* 60000/tempo ms pass without a tick.
C4_TickWithinPeriod == isPlaying => sinceTick <= Delay(tempo)

\* C5: a click on pad i of a track flips gate i of that track and changes
\* nothing else: not the other gates, the other tracks, the parameters, the
\* tempo, the transport, the grid position or the selection.  Patterns are
\* values here; what shows that the earlier pattern is not written to is that
\* an interval that stays live keeps the render it captured, and a new one
\* captures the new render.
C5_ToggleFrame ==
  [][lastOp' = "toggle" =>
       LET track == lastArg'[1]
           i == lastArg'[2]
           old == SequenceOf(State, track)
           new == SequenceOf(State', track)
       IN  /\ Len(new.steps) = BEATS_PER_BAR
           /\ At(new.steps, i) = ~At(old.steps, i)
           /\ \A j \in 0..(BEATS_PER_BAR - 1) :
                j # i => At(new.steps, j) = At(old.steps, j)
           /\ [new EXCEPT !.steps = old.steps] = old
           /\ \A other \in Track \ {track} :
                SequenceOf(State', other) = SequenceOf(State, other)
           /\ UNCHANGED <<tempo, isPlaying, currentStep, selectedTrack>>
           /\ \A n \in 1..Len(timers') :
                \/ \E m \in 1..Len(timers) : timers'[n] = timers[m]
                \/ timers'[n].cb = State']_vars

\* a pad was clicked while another gate of the same track was on
C5_Witness ==
  /\ lastOp = "toggle"
  /\ \E j \in 0..(BEATS_PER_BAR - 1) :
       j # lastArg[2] /\ At(StepsOf(lastArg[1]), j)

\* C6: after an even number of clicks in a row on the same pad the track's
\* pattern is the one the clicks started from.
C6_ToggleTwice ==
  (lastOp = "toggle" /\ streak > 0 /\ streak % 2 = 0) =>
    StepsOf(lastArg[1]) = origin

\* a pad of a pattern with a gate on was clicked twice in a row
C6_Witness ==
  /\ lastOp = "toggle" /\ streak = 2 /\ lastArg[2] = BEATS_PER_BAR - 1
  /\ \E j \in 0..(BEATS_PER_BAR - 1) : At(origin, j)

\* C7: every stored value is within its declared range (one-decimal values
\* in tenths), whatever was requested.
C7_InRange ==
  /\ tempo \in 60..240
  /\ sweepSequence.attack \in 0..10
  /\ sweepSequence.release \in 0..10
  /\ pulseSequence.frequency \in 660..1320
  /\ pulseSequence.lfo \in 20..40
  /\ noiseSequence.duration \in 0..20
  /\ noiseSequence.band \in 400..1200
  /\ sampleSequence.rate \in 1..20

\* a value above the range was requested of the bandpass input
C7_Witness ==
  /\ lastOp = "set" /\ lastArg[1] = "band" /\ lastArg[2] > 1200
  /\ noiseSequence.band = 1200

\* C8: a note built by a tick is built with the parameter values current at
\* the tick.
C8_CurrentParams ==
  lastOp = "tick" =>
    \A track \in DOMAIN built : built[track].params = Params(State, track)

\* C9: once every Pulse main tone has stopped, no LFO oscillator is running.
C9_LfoReleased == pulseTones = 0 => lfoRunning = 0

\* C10: a tick taken while the audio graph is suspended invokes no
\* synthesizer.
C10_SkippedWhileSuspended ==
  (lastOp = "tick" /\ firedOn = "suspended") => fires = {}

\* C11: a Sample firing finds no buffer and is a no-op: it builds no node,
\* lets the tick finish, leaves the gate as it is and leaves an interval
\* live for the next tick; and whenever the grid comes back to a step where
\* the Sample gate has fired this way and is still on, it fires again.
C11_SampleInert ==
  [][lastOp' = "tick" =>
       /\ SAMPLE \in fires' =>
            /\ SAMPLE \notin DOMAIN built'
            /\ currentStep' \in inert'
            /\ sampleSequence' = sampleSequence
            /\ Len(timers') = 1 /\ ~Stopped(timers'[1].cb)
       /\ (currentStep' \in inert /\ At(sampleSequence.steps, currentStep')) =>
            SAMPLE \in fires']_vars

\* C12: a pause leaves every committed note as it is, with its start at the
\* trigger time t and its stop at t + 2 s (Sweep) or t + 1 s (Pulse); a note
\* leaves the committed ones only by reaching its stop, whatever else
\* happens; and while playback is paused no tick is taken and no note is
\* committed.
C12_PauseKeepsNotes ==
  /\ [](\A n \in notes :
          /\ n.node.start = 0
          /\ n.node.stop = IF n.node.track = SWEEP THEN 2000 ELSE 1000)
  /\ [][/\ lastOp' = "pause" => notes' = notes
        /\ \A n \in notes : n \in notes' \/ lastOp' = "stop"
        /\ ~isPlaying => (lastOp' # "tick" /\ notes' \subseteq notes)]_vars

\* playback was paused while a Sweep note was committed and not yet stopped
C12_Witness ==
  /\ lastOp = "pause"
  /\ \E n \in notes : n.node.track = SWEEP /\ n.node.stop = 2000

\* C13: a Sweep firing with trigger time t, built with attack a and release
\* r, both in [0, 1] s, schedules exactly: gain 0 at t, a linear ramp that
\* reaches 1 at t + a, a linear ramp that reaches 0 at t + 2 - r, the
\* oscillator's start at t and its stop at t + 2.  Times in ms from t.
C13_SweepEnvelope ==
  (lastOp = "tick" /\ SWEEP \in DOMAIN built) =>
    LET a == built[SWEEP].params.attack
        r == built[SWEEP].params.release
        mine == {n \in notes : n.tick = nTicks /\ n.node.track = SWEEP}
    IN  /\ a \in 0..10 /\ r \in 0..10
        /\ mine = {[tick |-> nTicks,
                    node |-> [track |-> SWEEP,
                              gain |-> <<[value |-> 0, at |-> 0],
                                         [value |-> 1, at |-> 100 * a],
                                         [value |-> 0, at |-> 2000 - 100 * r]>>,
                              start |-> 0,
                              stop |-> 2000]]}

\* the firing of the claim's example, attack 0.2 s and release 0.5 s: 1 is
\* reached 0.2 s and 0 is reached 1.5 s after the trigger, the stop is at 2 s
C13_Witness ==
  /\ lastOp = "tick" /\ SWEEP \in DOMAIN built
  /\ sweepSequence.attack = 2 /\ sweepSequence.release = 5
  /\ \E n \in notes :
       /\ n.tick = nTicks /\ n.node.track = SWEEP
       /\ n.node.gain[2] = [value |-> 1, at |-> 200]
       /\ n.node.gain[3] = [value |-> 0, at |-> 1500]
       /\ n.node.stop = 2000

\* C14: one track is selected in every state, Sweep at the start.  A click
\* on a track button changes the selection and nothing else: not a pattern,
\* a parameter, the tempo, the transport or the grid position, and not the
\* audio graph.  The interval is not restarted: it stays the same interval
\* with the same delay, the same time already elapsed and the same callback,
\* and a callback of the render after the click fires at the next step what
\* one of the render before it fires, so the ticks that follow fire what
\* they would have fired, when they would have fired it.
C14_SelectionFrame ==
  /\ [](/\ selectedTrack \in Track
        /\ lastOp = "init" => selectedTrack = SWEEP)
  /\ [][lastOp' = "select" =>
          /\ selectedTrack' = lastArg'[1]
          /\ UNCHANGED <<currentStep, tempo, isPlaying, sweepSequence,
                         pulseSequence, noiseSequence, sampleSequence>>
          /\ UNCHANGED <<audio, inert>>
          /\ timers' = timers
          /\ Fired(State', NextStep(currentStep))
               = Fired(State, NextStep(currentStep))]_vars

\* another track was selected during playback, part of the way to the next
\* tick
C14_Witness ==
  /\ lastOp = "select" /\ isPlaying
  /\ Len(timers) = 1
  /\ timers[1].elapsed > 0 /\ timers[1].elapsed < timers[1].delay
  /\ timers[1].cb.selectedTrack # selectedTrack

\* C15: a note built by a tick goes through the analyzer exactly if its
\* track is the selected one at the tick.
C15_TapFollowsSelection ==
  lastOp = "tick" =>
    \A track \in DOMAIN built : built[track].tap <=> (selectedTrack = track)

\* C16: at most one visualize callback is queued for the next display
\* refresh, however many interval callbacks have run: in particular when a
\* refresh has just run the ones queued for it.
C16_OneVisualizePending == lastOp = "frame" => rafPending <= 1

\* C17: a tick that fires Noise, whatever its duration, builds the Noise
\* note without an error and goes on to the Sample gate of its step.
C17_NoiseCompletes ==
  (lastOp = "tick" /\ NOISE \in fires) =>
    /\ NOISE \in DOMAIN built
    /\ At(sampleSequence.steps, currentStep) => SAMPLE \in fires

\* the range and the step of the input of a per-track parameter
Declared(name) ==
  CASE name = "attack" -> [min |-> 0, max |-> 10, step |-> 1]
    [] name = "release" -> [min |-> 0, max |-> 10, step |-> 1]
    [] name = "frequency" -> [min |-> 660, max |-> 1320, step |-> 1]
    [] name = "lfo" -> [min |-> 20, max |-> 40, step |-> 1]
    [] name = "duration" -> [min |-> 0, max |-> 20, step |-> 1]
    [] name = "band" -> [min |-> 400, max |-> 1200, step |-> 5]
    [] name = "rate" -> [min |-> 1, max |-> 20, step |-> 1]

\* the value the program holds for a per-track parameter
Stored(name) ==
  CASE name = "attack" -> sweepSequence.attack
    [] name = "release" -> sweepSequence.release
    [] name = "frequency" -> pulseSequence.frequency
    [] name = "lfo" -> pulseSequence.lfo
    [] name = "duration" -> noiseSequence.duration
    [] name = "band" -> noiseSequence.band
    [] name = "rate" -> sampleSequence.rate

\* C18: when a per-track parameter has been set to a value of its range
\* that its input offers, the stored value is that value; the Sample rate
\* too.
C18_StoredAsSet ==
  (lastOp = "set" /\ lastArg[1] # "tempo") =>
    LET name == lastArg[1]
        v == lastArg[2]
        d == Declared(name)
    IN  (v \in d.min..d.max /\ (v - d.min) % d.step = 0) => Stored(name) = v

C20_NextStepGates ==
  [][lastOp' = "tick" =>
       /\ currentStep' = (currentStep + 1) % BEATS_PER_BAR
       /\ \A track \in Track :
            track \in fires' <=> At(SequenceOf(State', track).steps, currentStep')
       /\ nTicks' < BEATS_PER_BAR => currentStep' # 0]_vars

====
